---- MODULE Spec2Model ----
(***************************************************************************)
(* Model of "work in progress/API_req.py": a script that generates a uid,  *)
(* builds a cluster descriptor, serializes it, prints it, POSTs it to an   *)
(* endpoint and prints the status code and the JSON-parsed response body.  *)
(*                                                                         *)
(* Text is modelled at token level: a JSON text is a sequence of tokens    *)
(* (punctuation, double-quoted string literals, numbers, raw text), so     *)
(* json.dumps, response.json() and print's str()/repr() are conversions    *)
(* that are computed, not assumed.  Whitespace between tokens is not       *)
(* represented.                                                            *)
(***************************************************************************)
EXTENDS Naturals, Sequences, FiniteSets

VARIABLES
    pc,                 \* position of the interpreter in the script
    run,                \* number of the current invocation (1-based)
    cluster_uid,        \* line 5
    cluster_definition, \* lines 8-20
    json_data,          \* line 23
    url,                \* line 27
    response,           \* line 28
    exc,                \* the uncaught exception being propagated, "" when none
    stdout,             \* lines written to sys.stdout by this invocation
    stderr,             \* lines written to sys.stderr by this invocation
    exit_code,          \* process exit status, meaningful when pc = "exited"
    wire,               \* HTTP requests this invocation has put on the network
    files,              \* whatever the invocations have written to persistent storage
    past                \* request JSON of the finished invocations, oldest first

vars == <<pc, run, cluster_uid, cluster_definition, json_data, url, response,
          exc, stdout, stderr, exit_code, wire, files, past>>

----------------------------------------------------------------------------
(* Bounds of the model. *)

\* number of invocations of the script that are explored
MaxRuns == 2

\* number of distinct identifiers uuid4 may draw
MaxUid == 3

----------------------------------------------------------------------------
(* Python / JSON values.  Each kind is a record with its own field name, so *)
(* values of different kinds are comparable (and different).               *)

JStr(s) == [str |-> s]
JNum(n) == [num |-> n]
JList(seq) == [list |-> seq]
\* a dict is its sequence of <<key, value>> items in insertion order
JDict(items) == [dict |-> items]
\* a name that has not been assigned yet
Unbound == [unbound |-> TRUE]

IsStr(v) == DOMAIN v = {"str"}
IsNum(v) == DOMAIN v = {"num"}
IsList(v) == DOMAIN v = {"list"}
IsDict(v) == DOMAIN v = {"dict"}

\* d[key] of a dict value; Unbound when the key is absent
DictGet(d, key) ==
    LET hits == {i \in 1..Len(d.dict) : d.dict[i][1] = key}
    IN  IF hits = {} THEN Unbound ELSE d.dict[CHOOSE i \in hits : TRUE][2]

\* list(d.keys()) of a dict value
DictKeys(d) == [i \in 1..Len(d.dict) |-> d.dict[i][1]]

\* d[key] = val on the item sequence of a dict: an existing key keeps its place
DictSet(items, key, val) ==
    IF \E i \in 1..Len(items) : items[i][1] = key
    THEN [i \in 1..Len(items) |->
             IF items[i][1] = key THEN <<key, val>> ELSE items[i]]
    ELSE Append(items, <<key, val>>)

----------------------------------------------------------------------------
(* Tokens of a text. *)

Punct(c) == [k |-> "punct", s |-> c]
\* a double-quoted string literal, as JSON writes strings
DqTok(s) == [k |-> "dq", s |-> s]
\* a single-quoted string literal, as Python's repr writes strings
SqTok(s) == [k |-> "sq", s |-> s]
\* a decimal number
NumTok(n) == [k |-> "num", n |-> n]
\* text that is no JSON token
RawTok(s) == [k |-> "raw", s |-> s]

LBrace == Punct("{")
RBrace == Punct("}")
LBrack == Punct("[")
RBrack == Punct("]")
Colon == Punct(":")
Comma == Punct(",")

----------------------------------------------------------------------------
(* json.dumps: a value to its JSON text. *)

RECURSIVE Dumps(_), DumpsElements(_), DumpsItems(_)

DumpsElements(seq) ==
    IF Len(seq) = 0 THEN <<>>
    ELSE IF Len(seq) = 1 THEN Dumps(seq[1])
    ELSE Dumps(seq[1]) \o <<Comma>> \o DumpsElements(Tail(seq))

\* a serializer that leaves out members whose value is the empty string
DumpsItems_SkipEmpty(items) ==
    LET kept == SelectSeq(items, LAMBDA it : it[2] # JStr(""))
    IN  IF Len(kept) = 0 THEN <<>>
        ELSE LET one == <<DqTok(kept[1][1]), Colon>> \o Dumps(kept[1][2])
             IN  IF Len(kept) = 1 THEN one
                 ELSE one \o <<Comma>> \o DumpsItems(Tail(kept))

DumpsItems(items) ==
    IF Len(items) = 0 THEN <<>>
    ELSE LET one == <<DqTok(items[1][1]), Colon>> \o Dumps(items[1][2])
         IN  IF Len(items) = 1 THEN one
             ELSE one \o <<Comma>> \o DumpsItems(Tail(items))

Dumps(v) ==
    IF IsStr(v) THEN <<DqTok(v.str)>>
    ELSE IF IsNum(v) THEN <<NumTok(v.num)>>
    ELSE IF IsList(v) THEN <<LBrack>> \o DumpsElements(v.list) \o <<RBrack>>
    ELSE <<LBrace>> \o DumpsItems(v.dict) \o <<RBrace>>

----------------------------------------------------------------------------
(* json.loads: a JSON text to a value, or a decode error.  A recursive      *)
(* descent over the tokens; each parser returns whether it succeeded, the  *)
(* value and the position after it.                                        *)

ParseError(i) == [ok |-> FALSE, val |-> Unbound, next |-> i]
Parsed(v, i) == [ok |-> TRUE, val |-> v, next |-> i]

RECURSIVE ParseValue(_, _), ParseElements(_, _, _), ParseItems(_, _, _)

\* The one element of a singleton set.  A parser binds each intermediate
\* result as the element of a singleton, so that it is computed once.
The(S) == CHOOSE x \in S : TRUE

\* after "[" and the elements in acc: a value, then "," or "]"
ParseElements(toks, i, acc) ==
    The({ IF ~r.ok \/ r.next > Len(toks) THEN ParseError(i)
          ELSE IF toks[r.next] = RBrack
               THEN Parsed(JList(Append(acc, r.val)), r.next + 1)
          ELSE IF toks[r.next] = Comma
               THEN ParseElements(toks, r.next + 1, Append(acc, r.val))
          ELSE ParseError(r.next)
        : r \in {ParseValue(toks, i)} })

\* after "{" and the items in acc: a string, ":", a value, then "," or "}"
ParseItems(toks, i, acc) ==
    IF i + 1 > Len(toks) \/ toks[i].k # "dq" \/ toks[i + 1] # Colon
    THEN ParseError(i)
    ELSE The({ IF ~r.ok \/ r.next > Len(toks) THEN ParseError(i)
               ELSE The({ IF toks[r.next] = RBrace
                          THEN Parsed(JDict(got), r.next + 1)
                          ELSE IF toks[r.next] = Comma
                               THEN ParseItems(toks, r.next + 1, got)
                          ELSE ParseError(r.next)
                        : got \in {DictSet(acc, toks[i].s, r.val)} })
             : r \in {ParseValue(toks, i + 2)} })

ParseValue(toks, i) ==
    IF i > Len(toks) THEN ParseError(i)
    ELSE IF toks[i].k = "dq" THEN Parsed(JStr(toks[i].s), i + 1)
    ELSE IF toks[i].k = "num" THEN Parsed(JNum(toks[i].n), i + 1)
    ELSE IF toks[i] = LBrack
         THEN IF i + 1 <= Len(toks) /\ toks[i + 1] = RBrack
              THEN Parsed(JList(<<>>), i + 2)
              ELSE ParseElements(toks, i + 1, <<>>)
    ELSE IF toks[i] = LBrace
         THEN IF i + 1 <= Len(toks) /\ toks[i + 1] = RBrace
              THEN Parsed(JDict(<<>>), i + 2)
              ELSE ParseItems(toks, i + 1, <<>>)
    ELSE ParseError(i)

\* the whole text must be one value
Loads(toks) ==
    The({ IF r.ok /\ r.next = Len(toks) + 1 THEN r ELSE ParseError(r.next)
        : r \in {ParseValue(toks, 1)} })

----------------------------------------------------------------------------
(* str() of a printed object: repr for containers, the text itself for a   *)
(* str, the decimal digits for an int.                                     *)

RECURSIVE Repr(_), ReprElements(_), ReprItems(_)

ReprElements(seq) ==
    IF Len(seq) = 0 THEN <<>>
    ELSE IF Len(seq) = 1 THEN Repr(seq[1])
    ELSE Repr(seq[1]) \o <<Comma>> \o ReprElements(Tail(seq))

ReprItems(items) ==
    IF Len(items) = 0 THEN <<>>
    ELSE LET one == <<SqTok(items[1][1]), Colon>> \o Repr(items[1][2])
         IN  IF Len(items) = 1 THEN one
             ELSE one \o <<Comma>> \o ReprItems(Tail(items))

Repr(v) ==
    IF IsStr(v) THEN <<SqTok(v.str)>>
    ELSE IF IsNum(v) THEN <<NumTok(v.num)>>
    ELSE IF IsList(v) THEN <<LBrack>> \o ReprElements(v.list) \o <<RBrack>>
    ELSE <<LBrace>> \o ReprItems(v.dict) \o <<RBrace>>

----------------------------------------------------------------------------
(* The script's data. *)

\* identifiers uuid4 may draw, already converted by str()
UidPool ==
    << "1b4e28ba-2fa1-41d2-883f-0016d3cca427",
       "6fa459ea-ee8a-4ca4-894e-db77e160355e",
       "886313e1-3b8a-4372-9b90-0c9aee199e5d",
       "c9bf9e57-1685-4c89-bafb-ff5af830be8a",
       "e4eaaaf2-d142-41b2-b0c7-9f1e3d8f9a10" >>

UIDs == {UidPool[i] : i \in 1..MaxUid}

\* the dict literal of lines 8-20, with the given uid inserted
ClusterDefinition(uid) ==
    JDict(<< <<"cluster",
               JDict(<< <<"name", JStr("clusterName")>>,
                        <<"platformType", JStr("Docker")>>,
                        <<"agentsList", JList(<<JStr("agent1")>>)>>,
                        <<"domainName", JStr("example.org")>>,
                        <<"creationTime", JStr("Feb 08 2023 21:02:10")>>,
                        <<"managedBy", JStr("")>>,
                        <<"uid", JStr(uid)>> >>)>> >>)

\* the literal of line 27
Endpoint == "http://your.api.endpoint"

\* requests.post(url, json=obj): the request it builds; the json= argument is
\* serialized by the library with json.dumps
PostRequest(to, obj) == [method |-> "POST", url |-> to, body |-> Dumps(obj)]

NoResponse == [none |-> TRUE]

----------------------------------------------------------------------------
(* The remote endpoint: whatever answers at the url.  Its contract is not  *)
(* fixed by the script, so it may answer any of these statuses with any of *)
(* these bodies, refuse the connection, or break it after the request.     *)

StatusCodes == {200, 404, 500}

ReplyBodies(req) ==
    { req.body,                                            \* echo
      Dumps(JDict(<< <<"error", JStr("not found")>> >>)),  \* other JSON
      Dumps(JList(<<JNum(7), JStr("ok")>>)),               \* JSON, not an object
      <<RawTok("<html>")>>,                                \* not JSON
      SubSeq(req.body, 1, Len(req.body) - 1),              \* truncated JSON
      <<>> }                                               \* empty body

\* response.json() behind raise_for_status-like branching on the status code
JsonDecodes_StatusChecked(resp) ==
    resp.status_code < 400 /\ Loads(resp.body).ok

\* response.json() succeeds on this response
JsonDecodes(resp) == Loads(resp.body).ok

----------------------------------------------------------------------------
(* The script, one action per statement. *)

Init ==
    /\ pc = "line5"
    /\ run = 1
    /\ cluster_uid = ""
    /\ cluster_definition = Unbound
    /\ json_data = <<>>
    /\ url = ""
    /\ response = NoResponse
    /\ exc = ""
    /\ stdout = <<>>
    /\ stderr = <<>>
    /\ exit_code = 0
    /\ wire = <<>>
    /\ files = {}
    /\ past = <<>>

\* line 5: cluster_uid = str(uuid.uuid4())
GenerateUid ==
    /\ pc = "line5"
    /\ \E u \in UIDs : cluster_uid' = u
    /\ pc' = "line8"
    /\ UNCHANGED <<run, cluster_definition, json_data, url, response, exc,
                   stdout, stderr, exit_code, wire, files, past>>

\* lines 8-20 with uuid4 called again inside the literal instead of using
\* cluster_uid
BuildDefinition_FreshUid ==
    /\ pc = "line8"
    /\ \E u \in UIDs : cluster_definition' = ClusterDefinition(u)
    /\ pc' = "line23"
    /\ UNCHANGED <<run, cluster_uid, json_data, url, response, exc,
                   stdout, stderr, exit_code, wire, files, past>>

\* lines 8-20: cluster_definition = {"cluster": {..., "uid": cluster_uid}}
BuildDefinition ==
    /\ pc = "line8"
    /\ cluster_definition' = ClusterDefinition(cluster_uid)
    /\ pc' = "line23"
    /\ UNCHANGED <<run, cluster_uid, json_data, url, response, exc,
                   stdout, stderr, exit_code, wire, files, past>>

\* line 23: json_data = json.dumps(cluster_definition)
Serialize ==
    /\ pc = "line23"
    /\ json_data' = Dumps(cluster_definition)
    /\ pc' = "line26"
    /\ UNCHANGED <<run, cluster_uid, cluster_definition, url, response, exc,
                   stdout, stderr, exit_code, wire, files, past>>

\* line 26 left out: the request JSON is never printed
PrintRequest_Omitted ==
    /\ pc = "line26"
    /\ pc' = "line27"
    /\ UNCHANGED <<run, cluster_uid, cluster_definition, json_data, url,
                   response, exc, stdout, stderr, exit_code, wire, files, past>>

\* line 26: print(json_data)
PrintRequest ==
    /\ pc = "line26"
    /\ stdout' = Append(stdout, json_data)
    /\ pc' = "line27"
    /\ UNCHANGED <<run, cluster_uid, cluster_definition, json_data, url,
                   response, exc, stderr, exit_code, wire, files, past>>

\* line 27: url = "http://your.api.endpoint"
SetUrl ==
    /\ pc = "line27"
    /\ url' = Endpoint
    /\ pc' = "line28"
    /\ UNCHANGED <<run, cluster_uid, cluster_definition, json_data, response,
                   exc, stdout, stderr, exit_code, wire, files, past>>

\* line 28 inside a try/except that swallows the connection failure
ConnectFails_Swallowed ==
    /\ pc = "line28"
    /\ exc' = "ConnectionError"
    /\ pc' = "end"
    /\ UNCHANGED <<run, cluster_uid, cluster_definition, json_data, url,
                   response, stdout, stderr, exit_code, wire, files, past>>

\* line 28, requests.post cannot connect (no listener, name not resolved):
\* nothing is transmitted and the call raises
ConnectFails ==
    /\ pc = "line28"
    /\ exc' = "ConnectionError"
    /\ pc' = "raised"
    /\ UNCHANGED <<run, cluster_uid, cluster_definition, json_data, url,
                   response, stdout, stderr, exit_code, wire, files, past>>

\* line 28, requests.post connects and transmits the request, then blocks
SendRequest ==
    /\ pc = "line28"
    /\ wire' = Append(wire, PostRequest(url, cluster_definition))
    /\ pc' = "line28_wait"
    /\ UNCHANGED <<run, cluster_uid, cluster_definition, json_data, url,
                   response, exc, stdout, stderr, exit_code, files, past>>

\* line 28 with a retry loop around the call: a broken connection posts again
TransportFails_Retry ==
    /\ pc = "line28_wait"
    /\ pc' = "line28"
    /\ UNCHANGED <<run, cluster_uid, cluster_definition, json_data, url,
                   response, exc, stdout, stderr, exit_code, wire, files, past>>

\* line 28, the connection breaks before a reply: the call raises
TransportFails ==
    /\ pc = "line28_wait"
    /\ exc' = "ConnectionError"
    /\ pc' = "raised"
    /\ UNCHANGED <<run, cluster_uid, cluster_definition, json_data, url,
                   response, stdout, stderr, exit_code, wire, files, past>>

\* line 28, the reply arrives: response = <the reply>
ReceiveResponse ==
    /\ pc = "line28_wait"
    /\ \E st \in StatusCodes, b \in ReplyBodies(wire[Len(wire)]) :
           response' = [status_code |-> st, body |-> b]
    /\ pc' = "line30"
    /\ UNCHANGED <<run, cluster_uid, cluster_definition, json_data, url,
                   exc, stdout, stderr, exit_code, wire, files, past>>

\* line 30: print(response.status_code)
PrintStatus ==
    /\ pc = "line30"
    /\ stdout' = Append(stdout, <<NumTok(response.status_code)>>)
    /\ pc' = "line31"
    /\ UNCHANGED <<run, cluster_uid, cluster_definition, json_data, url,
                   response, exc, stderr, exit_code, wire, files, past>>

\* line 31 as print(response.text): the body is printed without being parsed
PrintResponseJson_Text ==
    /\ pc = "line31"
    /\ JsonDecodes(response)
    /\ stdout' = Append(stdout, response.body)
    /\ pc' = "end"
    /\ UNCHANGED <<run, cluster_uid, cluster_definition, json_data, url,
                   response, exc, stderr, exit_code, wire, files, past>>

\* line 31: print(response.json()), the body decodes
PrintResponseJson ==
    /\ pc = "line31"
    /\ JsonDecodes(response)
    /\ stdout' = Append(stdout, Repr(Loads(response.body).val))
    /\ pc' = "end"
    /\ UNCHANGED <<run, cluster_uid, cluster_definition, json_data, url,
                   response, exc, stderr, exit_code, wire, files, past>>

\* line 31 guarded: a body that does not decode is printed as text
ResponseJsonFails_Fallback ==
    /\ pc = "line31"
    /\ ~JsonDecodes(response)
    /\ stdout' = Append(stdout, response.body)
    /\ pc' = "end"
    /\ UNCHANGED <<run, cluster_uid, cluster_definition, json_data, url,
                   response, exc, stderr, exit_code, wire, files, past>>

\* response.json() evaluated before line 30's print: the failure comes first
ResponseJsonFails_BeforeStatus ==
    /\ pc \in {"line30", "line31"}
    /\ ~JsonDecodes(response)
    /\ exc' = "JSONDecodeError"
    /\ pc' = "raised"
    /\ UNCHANGED <<run, cluster_uid, cluster_definition, json_data, url,
                   response, stdout, stderr, exit_code, wire, files, past>>

\* line 31: response.json() raises, nothing is printed
ResponseJsonFails ==
    /\ pc = "line31"
    /\ ~JsonDecodes(response)
    /\ exc' = "JSONDecodeError"
    /\ pc' = "raised"
    /\ UNCHANGED <<run, cluster_uid, cluster_definition, json_data, url,
                   response, stdout, stderr, exit_code, wire, files, past>>

\* the end of the script is reached: the interpreter exits with status 0
ExitNormally ==
    /\ pc = "end"
    /\ exit_code' = 0
    /\ pc' = "exited"
    /\ UNCHANGED <<run, cluster_uid, cluster_definition, json_data, url,
                   response, exc, stdout, stderr, wire, files, past>>

\* the script wrapped in a handler that reports the failure and returns
UncaughtException_ExitZero ==
    /\ pc = "raised"
    /\ stderr' = Append(stderr, <<RawTok("Traceback"), RawTok(exc)>>)
    /\ exit_code' = 0
    /\ pc' = "exited"
    /\ UNCHANGED <<run, cluster_uid, cluster_definition, json_data, url,
                   response, exc, stdout, wire, files, past>>

\* no statement is inside a try: the exception reaches the top level, the
\* interpreter writes the traceback to stderr and exits with status 1
UncaughtException ==
    /\ pc = "raised"
    /\ stderr' = Append(stderr, <<RawTok("Traceback"), RawTok(exc)>>)
    /\ exit_code' = 1
    /\ pc' = "exited"
    /\ UNCHANGED <<run, cluster_uid, cluster_definition, json_data, url,
                   response, exc, stdout, wire, files, past>>

\* the script is run again: a new process, with nothing kept of the last one
NewInvocation ==
    /\ pc = "exited"
    /\ run < MaxRuns
    /\ run' = run + 1
    /\ past' = Append(past, json_data)
    /\ pc' = "line5"
    /\ cluster_uid' = ""
    /\ cluster_definition' = Unbound
    /\ json_data' = <<>>
    /\ url' = ""
    /\ response' = NoResponse
    /\ exc' = ""
    /\ stdout' = <<>>
    /\ stderr' = <<>>
    /\ exit_code' = 0
    /\ wire' = <<>>
    /\ UNCHANGED files

\* the statements the interpreter executes on its own
Interpreter ==
    \/ GenerateUid
    \/ BuildDefinition
    \/ Serialize
    \/ PrintRequest
    \/ SetUrl
    \/ SendRequest
    \/ PrintStatus
    \/ PrintResponseJson
    \/ ResponseJsonFails
    \/ ExitNormally
    \/ UncaughtException

\* what the network and the user do
Environment ==
    \/ ConnectFails
    \/ TransportFails
    \/ ReceiveResponse
    \/ NewInvocation

Next == Interpreter \/ Environment

Spec == Init /\ [][Next]_vars

\* the interpreter keeps executing statements; the network owes nothing
LiveSpec == Spec /\ WF_vars(Interpreter)

----------------------------------------------------------------------------
(* Vocabulary of the properties. *)

StatusLine(resp) == <<NumTok(resp.status_code)>>
Traceback(e) == <<RawTok("Traceback"), RawTok(e)>>
FieldNames ==
    <<"name", "platformType", "agentsList", "domainName", "creationTime",
      "managedBy", "uid">>
\* the descriptor inside a parsed request
ClusterOf(v) == DictGet(v, "cluster")
\* the descriptor's items other than uid
WithoutUid(v) == SelectSeq(ClusterOf(v).dict, LAMBDA it : it[1] # "uid")
\* the request JSON of every invocation so far, the current one last
RequestsPrinted == IF json_data = <<>> THEN past ELSE Append(past, json_data)
\* stdout holds the three lines of a complete run
FullOutput ==
    /\ response # NoResponse
    /\ Loads(response.body).ok
    /\ stdout = <<json_data, StatusLine(response), Repr(Loads(response.body).val)>>

----------------------------------------------------------------------------
\* C1: the request JSON is on stdout before the POST is on the network; the
\* status code and the response body are on stdout only once the reply has
\* been received; stdout holds, in this order, the request JSON, the status
\* code and the response body, and the POST lies between the first two.
C1_OutputOrder ==
    /\ wire # <<>> => Len(stdout) >= 1
    /\ Len(stdout) >= 1 => stdout[1] = json_data /\ json_data # <<>>
    /\ response # NoResponse => wire # <<>>
    /\ Len(stdout) >= 2 =>
           /\ response # NoResponse
           /\ stdout[2] = StatusLine(response)
    /\ Len(stdout) >= 3 =>
           /\ Loads(response.body).ok
           /\ stdout[3] = Repr(Loads(response.body).val)
    /\ Len(stdout) <= 3

\* C1: no step both prints and transmits, and stdout only grows at its end
C1_StepOrder ==
    [][ /\ wire' # wire /\ pc' # "line5" => stdout' = stdout /\ Len(stdout) = 1
        /\ response' # response /\ pc' # "line5" =>
               stdout' = stdout /\ Len(stdout) = 1 /\ Len(wire) = 1
        /\ stdout' # stdout /\ pc' # "line5" =>
               /\ Len(stdout') = Len(stdout) + 1
               /\ SubSeq(stdout', 1, Len(stdout)) = stdout ]_vars

\* C1: the order request JSON, POST, status code, response body holds in
\* every state and over every step
C1_Order == []C1_OutputOrder /\ C1_StepOrder

C1_Witness ==
    /\ pc = "exited"
    /\ Len(wire) = 1
    /\ FullOutput

----------------------------------------------------------------------------
\* C2: once the POST has failed with a transport error (in particular when
\* the connection is refused and nothing was transmitted), the error is not
\* handled and nothing is retried, stdout holds the request JSON and nothing
\* else, and the process ends with exit status 1 and a traceback on stderr.
C2_TransportErrorState ==
    exc = "ConnectionError" =>
        /\ pc \in {"raised", "exited"}
        /\ response = NoResponse
        /\ stdout = <<json_data>>
        /\ Len(wire) <= 1
        /\ pc = "exited" => exit_code = 1 /\ stderr = <<Traceback(exc)>>
        /\ pc = "raised" => stderr = <<>>

\* C2: a transport error leaves no status or body output, is not retried,
\* and leads to exit status 1
C2_Unreachable ==
    /\ []C2_TransportErrorState
    /\ (exc = "ConnectionError") ~> (pc = "exited" /\ exit_code = 1)

C2_Witness ==
    /\ pc = "exited"
    /\ exc = "ConnectionError"
    /\ wire = <<>>
    /\ exit_code = 1
    /\ stdout = <<json_data>>

----------------------------------------------------------------------------
\* C3: after a reply with status 200 whose body is no JSON text, the POST has
\* completed, the body is never printed, the failure is a JSON decode error
\* raised at line 31 and not handled, and the process ends with exit status 1.
BadJson200 ==
    /\ response # NoResponse
    /\ response.status_code = 200
    /\ ~Loads(response.body).ok

C3_BadJsonState ==
    BadJson200 =>
        /\ Len(wire) = 1
        /\ pc \in {"line30", "line31", "raised", "exited"}
        /\ Len(stdout) <= 2
        /\ pc \in {"raised", "exited"} =>
               /\ exc = "JSONDecodeError"
               /\ stdout = <<json_data, <<NumTok(200)>> >>
        /\ pc = "exited" => exit_code = 1 /\ stderr = <<Traceback(exc)>>

\* C3: status 200 with a body that is no JSON fails at the parse, after the
\* POST, with the body never printed, and leads to exit status 1
C3_ParseFailure ==
    /\ []C3_BadJsonState
    /\ BadJson200 ~> (pc = "exited" /\ exit_code = 1 /\ exc = "JSONDecodeError")

C3_Witness ==
    /\ BadJson200
    /\ pc = "exited"
    /\ exit_code = 1
    /\ exc = "JSONDecodeError"
    /\ response.body = <<RawTok("<html>")>>

----------------------------------------------------------------------------
\* C4: when the endpoint answers 200 with the request body echoed, the run
\* ends normally with the status line 200 and, as the response body, the
\* printed form of the descriptor built in this invocation, uid included.
Echo200 ==
    /\ response # NoResponse
    /\ response.status_code = 200
    /\ response.body = wire[1].body

\* C4: echo with status 200 prints 200 and the descriptor with this run's uid
C4_Echo ==
    Echo200 /\ pc \in {"end", "exited"} =>
        /\ exc = ""
        /\ Len(stdout) = 3
        /\ stdout[2] = <<NumTok(200)>>
        /\ stdout[3] = Repr(cluster_definition)
        /\ \E i \in 1..Len(stdout[3]) : stdout[3][i] = SqTok(cluster_uid)
        /\ cluster_uid \in UIDs
        /\ pc = "exited" => exit_code = 0

C4_Witness ==
    /\ Echo200
    /\ pc = "exited"
    /\ exit_code = 0
    /\ stdout[3] = Repr(ClusterDefinition(cluster_uid))

----------------------------------------------------------------------------
----------------------------------------------------------------------------
\* C6: the uid is drawn at line 5 only, before the descriptor exists, and
\* keeps its value to the end of the invocation; the printed JSON and the
\* transmitted body both parse to the descriptor, a `cluster` object with
\* exactly the seven fields, whose uid is that uid.
IsDescriptor(v) ==
    /\ IsDict(v)
    /\ DictKeys(v) = <<"cluster">>
    /\ IsDict(ClusterOf(v))
    /\ DictKeys(ClusterOf(v)) = FieldNames
    /\ DictGet(ClusterOf(v), "uid") = JStr(cluster_uid)

C6_UidState ==
    /\ cluster_definition # Unbound =>
           cluster_uid \in UIDs /\ IsDescriptor(cluster_definition)
    /\ cluster_uid = "" => cluster_definition = Unbound /\ pc = "line5"
    /\ Len(stdout) >= 1 =>
           /\ Loads(stdout[1]).ok
           /\ IsDescriptor(Loads(stdout[1]).val)
           /\ Loads(stdout[1]).val = cluster_definition
    /\ \A i \in 1..Len(wire) :
           /\ Loads(wire[i].body).ok
           /\ IsDescriptor(Loads(wire[i].body).val)
           /\ Loads(wire[i].body).val = cluster_definition

\* C6: one uid per invocation, fixed once drawn, and it is the uid of the
\* descriptor that is printed and transmitted
C6_UidOnce ==
    /\ []C6_UidState
    /\ [][cluster_uid' # cluster_uid =>
              \/ pc = "line5" /\ cluster_uid = "" /\ pc' = "line8"
              \/ pc = "exited" /\ pc' = "line5" /\ run' = run + 1]_vars

C6_Witness ==
    /\ Len(wire) = 1
    /\ Len(stdout) >= 1
    /\ Loads(stdout[1]).val = Loads(wire[1].body).val
    /\ DictGet(ClusterOf(Loads(wire[1].body).val), "uid") = JStr(cluster_uid)
    /\ cluster_uid \in UIDs

----------------------------------------------------------------------------
\* C7: json_data parses back to the descriptor with every field at the value
\* the script gave it, and the request JSON of any two invocations agree on
\* every field but uid.
C7_RoundTrip ==
    /\ json_data # <<>> =>
           LET r == Loads(json_data)
               c == ClusterOf(r.val)
           IN  /\ r.ok
               /\ r.val = cluster_definition
               /\ DictKeys(c) = FieldNames
               /\ DictGet(c, "name") = JStr("clusterName")
               /\ DictGet(c, "platformType") = JStr("Docker")
               /\ DictGet(c, "agentsList") = JList(<<JStr("agent1")>>)
               /\ DictGet(c, "domainName") = JStr("example.org")
               /\ DictGet(c, "creationTime") = JStr("Feb 08 2023 21:02:10")
               /\ DictGet(c, "managedBy") = JStr("")
               /\ DictGet(c, "uid") = JStr(cluster_uid)
    /\ \A i, j \in 1..Len(RequestsPrinted) :
           /\ Loads(RequestsPrinted[i]).ok
           /\ WithoutUid(Loads(RequestsPrinted[i]).val)
                  = WithoutUid(Loads(RequestsPrinted[j]).val)

C7_Witness ==
    /\ Len(past) = 1
    /\ json_data # <<>>
    /\ Loads(json_data).val = cluster_definition
    /\ Loads(past[1]).val # Loads(json_data).val
    /\ WithoutUid(Loads(past[1]).val) = WithoutUid(Loads(json_data).val)

----------------------------------------------------------------------------
\* C8: once the network has delivered a reply or a failure the process ends;
\* it ends with status 0 exactly when the status code and the parsed body
\* were both printed, with a non-zero status exactly when the request or the
\* JSON parse failed, and in no other way.
Delivered == response # NoResponse \/ exc = "ConnectionError"

C8_ExitState ==
    pc = "exited" =>
        /\ exit_code \in {0, 1}
        /\ exit_code = 0 <=> FullOutput
        /\ exit_code = 0 <=> exc = ""
        /\ exit_code # 0 <=> exc \in {"ConnectionError", "JSONDecodeError"}
        /\ exit_code # 0 => Len(stdout) < 3 /\ stderr = <<Traceback(exc)>>
        /\ exit_code = 0 => stderr = <<>>

\* C8: delivery leads to termination, with exit status 0 exactly for the
\* complete output and non-zero exactly for the two failures
C8_Termination ==
    /\ []C8_ExitState
    /\ Delivered ~> (pc = "exited")

C8_Witness ==
    /\ pc = "exited"
    /\ exit_code = 1
    /\ exc = "JSONDecodeError"
    /\ response.status_code = 500
    /\ stderr = <<Traceback("JSONDecodeError")>>

----------------------------------------------------------------------------
\* C9: whatever the status code, a reply whose body is a JSON text ends the
\* run normally with the status code and the body printed, and a reply whose
\* body is no JSON text ends it with a JSON decode error.
C9_NoStatusBranch ==
    /\ response # NoResponse =>
           /\ response.status_code \in StatusCodes
           /\ pc \in {"line30", "line31", "end", "raised", "exited"}
           /\ pc = "end" => Loads(response.body).ok
           /\ pc = "raised" => ~Loads(response.body).ok
    /\ response # NoResponse /\ pc = "exited" =>
           IF Loads(response.body).ok
           THEN /\ exit_code = 0
                /\ exc = ""
                /\ FullOutput
           ELSE /\ exit_code = 1
                /\ exc = "JSONDecodeError"
                /\ stdout = <<json_data, StatusLine(response)>>

C9_Witness ==
    /\ pc = "exited"
    /\ response # NoResponse
    /\ response.status_code = 500
    /\ Loads(response.body).ok
    /\ exit_code = 0
    /\ Len(stdout) = 3

----------------------------------------------------------------------------
\* C10: when the JSON decode error is raised the status code is already on
\* stdout, and a failed run has a status line on stdout exactly when a reply
\* was received.
C10_StatusBeforeParse ==
    /\ exc = "JSONDecodeError" =>
           /\ response # NoResponse
           /\ stdout = <<json_data, StatusLine(response)>>
    /\ pc = "exited" /\ exit_code # 0 =>
           (Len(stdout) >= 2 <=> response # NoResponse)
    /\ pc = "exited" /\ exit_code # 0 /\ Len(stdout) >= 2 =>
           stdout[2] = StatusLine(response)

C10_Witness ==
    /\ pc = "exited"
    /\ exit_code = 1
    /\ exc = "JSONDecodeError"
    /\ response.status_code = 404
    /\ stdout = <<json_data, <<NumTok(404)>> >>

====
